---- MODULE Spec2Model ----
(***************************************************************************)
(* Attributed graphs (graph.py) and the PageRank iteration (pagerank.py).  *)
(* A graph object is the pair of insertion-ordered dictionaries _nodes and *)
(* _edges; every public method is one action, and `ret` records what the   *)
(* most recent call was and how it ended (return value or exception).      *)
(***************************************************************************)
EXTENDS Integers, Sequences, FiniteSets, TLC

\* Bounds of the client of the graph object (specification Spec): number of
\* nodes of a BaseGraph or UndirectedGraph, number of nodes of a DirectedGraph
\* (whose Node objects carry the four caches), number of successful add_edge
\* calls, and number of degree/neighbor queries that are answered by a scan
\* of the edges (cache misses).
MaxNodes == 3
MaxCachedNodes == 2
MaxEdges == 2
MaxScans == 2
\* Bounds of the PageRank program (specification SpecPR): rows of the node
\* file, rows of the edge file, and the largest num_iterations.
MaxNodeRows == 3
MaxEdgeRows == 2
MaxIter == 2

NodeIds == 0 .. (MaxNodes - 1)
CachedNodeIds == 0 .. (MaxCachedNodes - 1)
RowIds == 0 .. (MaxNodeRows - 1)
NodeAttrs == {0}
EdgeAttrs == {0, 1}
GraphKinds == {"BaseGraph", "UndirectedGraph", "DirectedGraph"}

VARIABLES
    kind,        \* the class of the graph object
    self_nodes,  \* self._nodes: the Node objects, in insertion order
    self_edges,  \* self._edges: the Edge objects, in insertion order
    ret,         \* the most recent call and its outcome
    scans,       \* number of queries answered by scanning the edges so far
    pc,          \* position of the program that uses the graph
    argv         \* sys.argv[1:], the arguments of the command line

vars == <<kind, self_nodes, self_edges, ret, scans, pc, argv>>

\* An identifier that is itself a pair (a, b) of identifiers of NodeIds is
\* written as a number beyond NodeIds.
PairId(a, b) == MaxNodes * (a + 1) + b
IsPairId(x) == x >= MaxNodes
PairFirst(x) == (x \div MaxNodes) - 1
PairSecond(x) == x % MaxNodes

\* The identifiers of the client that tests membership and indexing: two
\* plain identifiers and the pair of them
KeyIds == {0, 1, PairId(0, 1)}

\* The positions of a client that calls the methods of one graph object
ClientPcs == {"client", "keys"}

\* The identifiers the client uses with a graph of the given class
ClientIds == IF pc = "keys" THEN KeyIds
             ELSE IF kind = "DirectedGraph" THEN CachedNodeIds ELSE NodeIds

\* Python's None, for the neighbor lists of a Node that were never computed
\* and for the result of a method without a return statement.
None == << -1 >>

----------------------------------------------------------------------------
\* Node and Edge objects

Node(identifier, attributes, oid) ==
    [ identifier |-> identifier, attributes |-> attributes, oid |-> oid,
      in_degree |-> 0, out_degree |-> 0,
      in_neighbors |-> None, out_neighbors |-> None,
      flag_in |-> FALSE, flag_in_neig |-> FALSE,
      flag_out |-> FALSE, flag_out_neig |-> FALSE ]

Edge(key, node1, node2, attributes) ==
    [ key |-> key, nodes |-> <<node1.oid, node2.oid>>, attributes |-> attributes ]

----------------------------------------------------------------------------
\* Dictionary helpers: a dict is the sequence of its values in insertion order

HasNode(ns, node_id) == \E i \in 1..Len(ns) : ns[i].identifier = node_id

NodeIndex(ns, node_id) == CHOOSE i \in 1..Len(ns) : ns[i].identifier = node_id

HasEdge(es, key) == \E i \in 1..Len(es) : es[i].key = key

EdgeIndex(es, key) == CHOOSE i \in 1..Len(es) : es[i].key = key

Ids(ns) == { ns[i].identifier : i \in 1..Len(ns) }

Keys(es) == { es[i].key : i \in 1..Len(es) }

RECURSIVE SortedSeq(_)
SortedSeq(S) ==
    IF S = {} THEN <<>>
    ELSE LET m == CHOOSE x \in S : \A y \in S : x <= y
         IN  <<m>> \o SortedSeq(S \ {m})

nodes_id(ns) == SortedSeq(Ids(ns))

----------------------------------------------------------------------------
\* BaseGraph

\* Result of a call: how it ended, what it returned, and the graph after it.
Outcome(status, val, ns, es) ==
    [ status |-> status, val |-> val, nodes |-> ns, edges |-> es ]

\* Variant: add_node without the membership test, `self._nodes[node_id] = Node(...)`
\* replaces the stored Node of an existing identifier.
BaseGraph_add_node_overwrite(ns, es, node_id, attributes) ==
    IF HasNode(ns, node_id)
    THEN Outcome("ok", None,
                 [ns EXCEPT ![NodeIndex(ns, node_id)] =
                      Node(node_id, attributes, Len(ns) + 1)], es)
    ELSE Outcome("ok", None, Append(ns, Node(node_id, attributes, Len(ns) + 1)), es)

BaseGraph_add_node(ns, es, node_id, attributes) ==
    IF HasNode(ns, node_id)
    THEN Outcome("GraphError", None, ns, es)
    ELSE Outcome("ok", None, Append(ns, Node(node_id, attributes, Len(ns) + 1)), es)

\* Variant: add_edge that stores the edge before it looks for the endpoints.
BaseGraph_add_edge_store_first(ns, es, node1_id, node2_id, attributes) ==
    IF HasEdge(es, <<node1_id, node2_id>>)
    THEN Outcome("GraphError", None, ns, es)
    ELSE IF ~HasNode(ns, node1_id) \/ ~HasNode(ns, node2_id)
    THEN Outcome("GraphError", None, ns,
                 Append(es, [ key |-> <<node1_id, node2_id>>, nodes |-> <<0, 0>>,
                              attributes |-> attributes ]))
    ELSE LET i1 == NodeIndex(ns, node1_id)
             i2 == NodeIndex(ns, node2_id)
             e  == Edge(<<node1_id, node2_id>>, ns[i1], ns[i2], attributes)
             n1 == [ns EXCEPT ![i1].flag_out = FALSE, ![i1].flag_out_neig = FALSE]
             n2 == [n1 EXCEPT ![i2].flag_in = FALSE, ![i2].flag_in_neig = FALSE]
         IN  Outcome("ok", None, n2, Append(es, e))

\* Variant: add_edge that invalidates every cache of both endpoints.
BaseGraph_add_edge_flush_endpoints(ns, es, node1_id, node2_id, attributes) ==
    IF HasEdge(es, <<node1_id, node2_id>>)
    THEN Outcome("GraphError", None, ns, es)
    ELSE IF ~HasNode(ns, node1_id) \/ ~HasNode(ns, node2_id)
    THEN Outcome("GraphError", None, ns, es)
    ELSE LET i1 == NodeIndex(ns, node1_id)
             i2 == NodeIndex(ns, node2_id)
             e  == Edge(<<node1_id, node2_id>>, ns[i1], ns[i2], attributes)
             n1 == [ns EXCEPT ![i1].flag_out = FALSE, ![i1].flag_out_neig = FALSE,
                              ![i1].flag_in = FALSE, ![i1].flag_in_neig = FALSE]
             n2 == [n1 EXCEPT ![i2].flag_out = FALSE, ![i2].flag_out_neig = FALSE,
                              ![i2].flag_in = FALSE, ![i2].flag_in_neig = FALSE]
         IN  Outcome("ok", None, n2, Append(es, e))

\* Variant: add_edge that leaves the caches of the destination valid.
BaseGraph_add_edge_source_only(ns, es, node1_id, node2_id, attributes) ==
    IF HasEdge(es, <<node1_id, node2_id>>)
    THEN Outcome("GraphError", None, ns, es)
    ELSE IF ~HasNode(ns, node1_id) \/ ~HasNode(ns, node2_id)
    THEN Outcome("GraphError", None, ns, es)
    ELSE LET i1 == NodeIndex(ns, node1_id)
             i2 == NodeIndex(ns, node2_id)
             e  == Edge(<<node1_id, node2_id>>, ns[i1], ns[i2], attributes)
             n1 == [ns EXCEPT ![i1].flag_out = FALSE, ![i1].flag_out_neig = FALSE]
         IN  Outcome("ok", None, n1, Append(es, e))

BaseGraph_add_edge(ns, es, node1_id, node2_id, attributes) ==
    IF HasEdge(es, <<node1_id, node2_id>>)
    THEN Outcome("GraphError", None, ns, es)
    ELSE IF ~HasNode(ns, node1_id) \/ ~HasNode(ns, node2_id)
    THEN Outcome("GraphError", None, ns, es)
    ELSE LET i1 == NodeIndex(ns, node1_id)
             i2 == NodeIndex(ns, node2_id)
             e  == Edge(<<node1_id, node2_id>>, ns[i1], ns[i2], attributes)
             n1 == [ns EXCEPT ![i1].flag_out = FALSE, ![i1].flag_out_neig = FALSE]
             n2 == [n1 EXCEPT ![i2].flag_in = FALSE, ![i2].flag_in_neig = FALSE]
         IN  Outcome("ok", None, n2, Append(es, e))

\* Variant: node without the membership test, `return self._nodes[node_id]`
\* fails with the dictionary's own KeyError.
BaseGraph_node_unchecked(ns, es, node_id) ==
    IF ~HasNode(ns, node_id)
    THEN Outcome("KeyError", None, ns, es)
    ELSE Outcome("ok", ns[NodeIndex(ns, node_id)], ns, es)

BaseGraph_node(ns, es, node_id) ==
    IF ~HasNode(ns, node_id)
    THEN Outcome("GraphError", None, ns, es)
    ELSE Outcome("ok", ns[NodeIndex(ns, node_id)], ns, es)

BaseGraph_edge(ns, es, node1_id, node2_id) ==
    IF ~HasEdge(es, <<node1_id, node2_id>>)
    THEN Outcome("GraphError", None, ns, es)
    ELSE Outcome("ok", es[EdgeIndex(es, <<node1_id, node2_id>>)], ns, es)

\* A key of g[key]: is_tuple is isinstance(key, tuple), items the components
\* of a tuple or the one-element sequence of a key that is no tuple.
Key(is_tuple, items) == [ is_tuple |-> is_tuple, items |-> items ]

BaseGraph_getitem(ns, es, key) ==
    IF key.is_tuple
    THEN BaseGraph_edge(ns, es, key.items[1], key.items[2])
    ELSE BaseGraph_node(ns, es, key.items[1])

BaseGraph_contains(ns, es, item) ==
    IF item.is_tuple
    THEN Outcome("ok", HasEdge(es, item.items), ns, es)
    ELSE Outcome("ok", HasNode(ns, item.items[1]), ns, es)

\* The identifier x as the key that g[x] and `x in g` receive
KeyOf(x) ==
    IF IsPairId(x) THEN Key(TRUE, <<PairFirst(x), PairSecond(x)>>)
    ELSE Key(FALSE, <<x>>)

----------------------------------------------------------------------------
\* UndirectedGraph

\* Variant: the undirected add_edge without the self-loop test.
UndirectedGraph_add_edge_no_loop_test(ns, es, node1_id, node2_id, attributes) ==
    LET first == BaseGraph_add_edge(ns, es, node1_id, node2_id, attributes)
    IN  IF first.status # "ok" THEN first
        ELSE BaseGraph_add_edge(first.nodes, first.edges,
                                node2_id, node1_id, attributes)

UndirectedGraph_add_edge(ns, es, node1_id, node2_id, attributes) ==
    IF node1_id = node2_id
    THEN Outcome("GraphError", None, ns, es)
    ELSE LET first == BaseGraph_add_edge(ns, es, node1_id, node2_id, attributes)
         IN  IF first.status # "ok" THEN first
             ELSE BaseGraph_add_edge(first.nodes, first.edges,
                                     node2_id, node1_id, attributes)

\* Variant: degree that counts the stored halves without dividing by two.
UndirectedGraph_degree_no_halving(ns, es, node_id) ==
    IF ~HasNode(ns, node_id)
    THEN Outcome("GraphError", None, ns, es)
    ELSE Outcome("ok",
                 Cardinality({ i \in 1..Len(es) :
                                 node_id = es[i].key[1] \/ node_id = es[i].key[2] }),
                 ns, es)

UndirectedGraph_degree(ns, es, node_id) ==
    IF ~HasNode(ns, node_id)
    THEN Outcome("GraphError", None, ns, es)
    ELSE LET degree_count ==
                 Cardinality({ i \in 1..Len(es) :
                                 node_id = es[i].key[1] \/ node_id = es[i].key[2] })
         IN  Outcome("ok", degree_count \div 2, ns, es)

----------------------------------------------------------------------------
\* DirectedGraph

\* The identifiers appended by the scan `for (src, dest) in self._edges.keys()`
\* to the list of node_id: position `mine` of the key selects the list owner,
\* position `other` the appended identifier.
RECURSIVE Scan(_, _, _, _)
Scan(es, node_id, mine, other) ==
    IF es = <<>> THEN <<>>
    ELSE LET rest == Scan(Tail(es), node_id, mine, other)
         IN  IF Head(es).key[mine] = node_id
             THEN <<Head(es).key[other]>> \o rest
             ELSE rest

DirectedGraph_in_degree(ns, es, node_id) ==
    IF ~HasNode(ns, node_id)
    THEN Outcome("GraphError", None, ns, es)
    ELSE LET i == NodeIndex(ns, node_id)
         IN  IF ns[i].flag_in = FALSE
             THEN LET in_degree_count == Len(Scan(es, node_id, 2, 1))
                  IN  Outcome("ok", in_degree_count,
                              [ns EXCEPT ![i].flag_in = TRUE,
                                         ![i].in_degree = in_degree_count], es)
             \* `return in_degree_count` reads a local that is bound only
             \* inside the if-branch
             ELSE Outcome("UnboundLocalError", None, ns, es)

DirectedGraph_out_degree(ns, es, node_id) ==
    IF ~HasNode(ns, node_id)
    THEN Outcome("GraphError", None, ns, es)
    ELSE LET i == NodeIndex(ns, node_id)
         IN  IF ns[i].flag_out = FALSE
             THEN LET out_degree_count == Len(Scan(es, node_id, 1, 2))
                      n1 == [ns EXCEPT ![i].flag_out = TRUE,
                                       ![i].out_degree = out_degree_count]
                  IN  Outcome("ok", n1[i].out_degree, n1, es)
             ELSE Outcome("ok", ns[i].out_degree, ns, es)

DirectedGraph_out_neighbors(ns, es, node_id) ==
    IF ~HasNode(ns, node_id)
    THEN Outcome("GraphError", None, ns, es)
    ELSE LET i == NodeIndex(ns, node_id)
         IN  IF ns[i].flag_out_neig = FALSE
             THEN LET n1 == [ns EXCEPT ![i].flag_out_neig = TRUE]
                      n2 == [j \in 1..Len(n1) |->
                               [n1[j] EXCEPT !.out_neighbors =
                                   Scan(es, n1[j].identifier, 1, 2)]]
                  \* the loop variable `node` of the reset loop shadows the
                  \* looked-up node: it is left on the last value of _nodes
                  IN  Outcome("ok", n2[Len(n2)].out_neighbors, n2, es)
             ELSE Outcome("ok", ns[i].out_neighbors, ns, es)

\* Variant: in_neighbors with source and destination exchanged,
\* `self._nodes[src]._in_neighbors.append(dest)`.
DirectedGraph_in_neighbors_swapped(ns, es, node_id) ==
    IF ~HasNode(ns, node_id)
    THEN Outcome("GraphError", None, ns, es)
    ELSE LET i == NodeIndex(ns, node_id)
         IN  IF ns[i].flag_in_neig = FALSE
             THEN LET n1 == [ns EXCEPT ![i].flag_in_neig = TRUE]
                      n2 == [j \in 1..Len(n1) |->
                               [n1[j] EXCEPT !.in_neighbors =
                                   Scan(es, n1[j].identifier, 1, 2)]]
                  IN  Outcome("ok", n2[Len(n2)].in_neighbors, n2, es)
             ELSE Outcome("ok", ns[i].in_neighbors, ns, es)

DirectedGraph_in_neighbors(ns, es, node_id) ==
    IF ~HasNode(ns, node_id)
    THEN Outcome("GraphError", None, ns, es)
    ELSE LET i == NodeIndex(ns, node_id)
         IN  IF ns[i].flag_in_neig = FALSE
             THEN LET n1 == [ns EXCEPT ![i].flag_in_neig = TRUE]
                      n2 == [j \in 1..Len(n1) |->
                               [n1[j] EXCEPT !.in_neighbors =
                                   Scan(es, n1[j].identifier, 2, 1)]]
                  IN  Outcome("ok", n2[Len(n2)].in_neighbors, n2, es)
             ELSE Outcome("ok", ns[i].in_neighbors, ns, es)

----------------------------------------------------------------------------
\* The calls a client can make on the graph object

Call(op, args, out) ==
    /\ self_nodes' = out.nodes
    /\ self_edges' = out.edges
    /\ ret' = [ op |-> op, args |-> args, status |-> out.status, val |-> out.val ]
    /\ UNCHANGED <<kind, argv>>

\* A degree or neighbor query of a DirectedGraph; a cache miss scans the edges.
Query(op, node_id, out) ==
    /\ kind = "DirectedGraph"
    /\ pc = "client"
    /\ Call(op, <<node_id>>, out)
    /\ scans' = IF out.nodes # self_nodes THEN scans + 1 ELSE scans
    /\ scans' <= MaxScans
    /\ UNCHANGED pc

Constructed ==
    /\ self_nodes = <<>>
    /\ self_edges = <<>>
    /\ scans = 0
    /\ ret = [ op |-> "__init__", args |-> <<>>, status |-> "ok", val |-> None ]

Init ==
    /\ kind \in GraphKinds
    /\ pc = "client"
    /\ argv = <<>>
    /\ Constructed

add_node ==
    \E node_id \in ClientIds, attributes \in NodeAttrs :
        /\ pc \in ClientPcs
        /\ Call("add_node", <<node_id, attributes>>,
                BaseGraph_add_node(self_nodes, self_edges, node_id, attributes))
        /\ UNCHANGED <<scans, pc>>

\* Dispatch of g.add_edge on the class of g
Graph_add_edge(ns, es, node1_id, node2_id, attributes) ==
    IF kind = "UndirectedGraph"
    THEN UndirectedGraph_add_edge(ns, es, node1_id, node2_id, attributes)
    ELSE BaseGraph_add_edge(ns, es, node1_id, node2_id, attributes)

\* Number of add_edge calls that succeeded so far
EdgesAdded == IF kind = "UndirectedGraph" THEN Len(self_edges) \div 2
              ELSE Len(self_edges)

add_edge ==
    \E node1_id \in ClientIds, node2_id \in ClientIds, attributes \in EdgeAttrs :
        LET out == Graph_add_edge(self_nodes, self_edges,
                                  node1_id, node2_id, attributes)
        IN  /\ pc \in ClientPcs
            /\ out.status # "ok" \/ EdgesAdded < MaxEdges
            /\ Call("add_edge", <<node1_id, node2_id, attributes>>, out)
            /\ UNCHANGED <<scans, pc>>

degree ==
    \E node_id \in ClientIds :
        /\ kind = "UndirectedGraph"
        /\ pc = "client"
        /\ Call("degree", <<node_id>>,
                UndirectedGraph_degree(self_nodes, self_edges, node_id))
        /\ UNCHANGED <<scans, pc>>

in_degree ==
    \E node_id \in ClientIds :
        Query("in_degree", node_id,
              DirectedGraph_in_degree(self_nodes, self_edges, node_id))

out_degree ==
    \E node_id \in ClientIds :
        Query("out_degree", node_id,
              DirectedGraph_out_degree(self_nodes, self_edges, node_id))

out_neighbors ==
    \E node_id \in ClientIds :
        Query("out_neighbors", node_id,
              DirectedGraph_out_neighbors(self_nodes, self_edges, node_id))

in_neighbors ==
    \E node_id \in ClientIds :
        Query("in_neighbors", node_id,
              DirectedGraph_in_neighbors(self_nodes, self_edges, node_id))

node ==
    \E node_id \in ClientIds :
        /\ pc \in ClientPcs
        /\ Call("node", <<node_id>>, BaseGraph_node(self_nodes, self_edges, node_id))
        /\ UNCHANGED <<scans, pc>>

edge ==
    \E node1_id \in ClientIds, node2_id \in ClientIds :
        /\ pc \in ClientPcs
        /\ Call("edge", <<node1_id, node2_id>>,
                BaseGraph_edge(self_nodes, self_edges, node1_id, node2_id))
        /\ UNCHANGED <<scans, pc>>

\* The keys the client uses with g[key]
ClientKeys ==
    { KeyOf(a) : a \in ClientIds }
        \cup { Key(TRUE, <<a, b>>) : a \in ClientIds, b \in ClientIds }

getitem ==
    \E key \in ClientKeys :
        /\ pc \in ClientPcs
        /\ Call("__getitem__", <<key>>,
                BaseGraph_getitem(self_nodes, self_edges, key))
        /\ UNCHANGED <<scans, pc>>

contains ==
    \E item \in ClientKeys :
        /\ pc = "keys"
        /\ Call("__contains__", <<item>>,
                BaseGraph_contains(self_nodes, self_edges, item))
        /\ UNCHANGED <<scans, pc>>

Next ==
    \/ add_node
    \/ add_edge
    \/ degree
    \/ in_degree
    \/ out_degree
    \/ out_neighbors
    \/ in_neighbors
    \/ node
    \/ edge
    \/ getitem

Spec == Init /\ [][Next]_vars

\* The client that tests membership and indexing, on a BaseGraph whose
\* identifiers include a pair
InitKeys ==
    /\ kind = "BaseGraph"
    /\ pc = "keys"
    /\ argv = <<>>
    /\ Constructed

NextKeys ==
    \/ add_node
    \/ add_edge
    \/ node
    \/ edge
    \/ getitem
    \/ contains

SpecKeys == InitKeys /\ [][NextKeys]_vars

----------------------------------------------------------------------------
\* Exact arithmetic for the rank values: a number is <<numerator, denominator>>
\* in lowest terms with a positive denominator.

RECURSIVE GCD(_, _)
GCD(a, b) == IF b = 0 THEN a ELSE GCD(b, a % b)

Abs(n) == IF n < 0 THEN -n ELSE n

Reduce(n, d, g) == <<n \div g, d \div g>>

Frac(n, d) == Reduce(n, d, GCD(Abs(n), d))

Zero == <<0, 1>>
One == <<1, 1>>

\* x + y over the common denominator l
FAddOver(x, y, l) == Frac(x[1] * (l \div x[2]) + y[1] * (l \div y[2]), l)

FAdd(x, y) == FAddOver(x, y, (x[2] \div GCD(x[2], y[2])) * y[2])

FNeg(x) == <<-x[1], x[2]>>

FSub(x, y) == FAdd(x, FNeg(y))

\* x * y after cancelling g1 = gcd(x[1], y[2]) and g2 = gcd(y[1], x[2])
FMulCancel(x, y, g1, g2) ==
    Frac((x[1] \div g1) * (y[1] \div g2), (x[2] \div g2) * (y[2] \div g1))

FMul(x, y) == FMulCancel(x, y, GCD(Abs(x[1]), y[2]), GCD(Abs(y[1]), x[2]))

\* x / n for an integer n > 0
FDiv(x, n) == FMul(x, <<1, n>>)

FAbs(x) == <<Abs(x[1]), x[2]>>

FLess(x, y) == FSub(x, y)[1] < 0

\* Sum of the values f[x] for the remaining keys, added to acc
RECURSIVE FSum(_, _, _)
FSum(f, keys, acc) ==
    IF keys = <<>> THEN acc ELSE FSum(f, Tail(keys), FAdd(acc, f[Head(keys)]))

----------------------------------------------------------------------------
\* pagerank.py

\* The loop of find_sinks over the remaining identifiers `ids`; ns are the
\* Node objects (out_degree fills their caches), sinks the list so far.
RECURSIVE find_sinks_loop(_, _, _, _)
find_sinks_test(sinks, es, ids, od) ==
    find_sinks_loop(od.nodes, es, Tail(ids),
                    IF od.val = 0 THEN Append(sinks, Head(ids)) ELSE sinks)

find_sinks_loop(ns, es, ids, sinks) ==
    IF ids = <<>> THEN [ nodes |-> ns, sinks |-> sinks ]
    ELSE find_sinks_test(sinks, es, ids, DirectedGraph_out_degree(ns, es, Head(ids)))

find_sinks(ns, es) == find_sinks_loop(ns, es, nodes_id(ns), <<>>)

\* The loop of handle_sinks over the remaining sinks: the rank map is updated
\* in place, sum is sink_rank_sum.
RECURSIVE handle_sinks_loop(_, _, _, _)
handle_sinks_add(pagerank_values, sinks, tot_nodes, sum, divided) ==
    handle_sinks_loop([pagerank_values EXCEPT ![Head(sinks)] = divided],
                      Tail(sinks), tot_nodes, FAdd(sum, divided))

handle_sinks_loop(pagerank_values, sinks, tot_nodes, sum) ==
    IF sinks = <<>> THEN [ values |-> pagerank_values, sum |-> sum ]
    ELSE handle_sinks_add(pagerank_values, sinks, tot_nodes, sum,
                          FDiv(pagerank_values[Head(sinks)], tot_nodes))

handle_sinks(pagerank_values, sinks, tot_nodes) ==
    handle_sinks_loop(pagerank_values, sinks, tot_nodes, Zero)

\* The inner loop of the propagation step, over the list `nbrs` returned by
\* in_neighbors(node_id); st = [status, nodes, new, divisors], divisors being
\* the pairs <<neighbor_id, out_degree(neighbor_id)>> divided by so far.
RECURSIVE propagate_neighbors(_, _, _, _, _, _)
propagate_edge(st, es, node_id, nbrs, pagerank_values, damping_factor, od) ==
    IF od.status # "ok"
    THEN [st EXCEPT !.status = od.status, !.nodes = od.nodes]
    ELSE IF od.val = 0
    THEN [st EXCEPT !.status = "ZeroDivisionError", !.nodes = od.nodes]
    ELSE propagate_neighbors(
             [st EXCEPT !.nodes = od.nodes,
                        !.divisors = Append(@, <<Head(nbrs), od.val>>),
                        !.new[node_id] =
                            FAdd(@, FDiv(FMul(damping_factor,
                                              pagerank_values[Head(nbrs)]),
                                         od.val))],
             es, node_id, Tail(nbrs), pagerank_values, damping_factor)

propagate_neighbors(st, es, node_id, nbrs, pagerank_values, damping_factor) ==
    IF nbrs = <<>> THEN st
    ELSE propagate_edge(st, es, node_id, nbrs, pagerank_values, damping_factor,
                        DirectedGraph_out_degree(st.nodes, es, Head(nbrs)))

\* The outer loop of the propagation step, over the remaining identifiers
RECURSIVE propagate(_, _, _, _, _)
propagate_node(st, es, ids, pagerank_values, damping_factor, inn) ==
    IF inn.status # "ok"
    THEN [st EXCEPT !.status = inn.status, !.nodes = inn.nodes]
    ELSE propagate(
             propagate_neighbors([st EXCEPT !.nodes = inn.nodes], es, Head(ids),
                                 inn.val, pagerank_values, damping_factor),
             es, Tail(ids), pagerank_values, damping_factor)

propagate(st, es, ids, pagerank_values, damping_factor) ==
    IF ids = <<>> \/ st.status # "ok" THEN st
    ELSE propagate_node(st, es, ids, pagerank_values, damping_factor,
                        DirectedGraph_in_neighbors(st.nodes, es, Head(ids)))

\* error = sum(abs(new_pagerank_values[id] - pagerank_values[id]) ...), with
\* the record of the pass: the map at its start (before), the map after
\* handle_sinks (values), and new_pagerank_values (new).
iteration_error(before, values, pr) ==
    [ status |-> pr.status,
      nodes  |-> pr.nodes,
      before |-> before,
      values |-> values,
      new    |-> pr.new,
      divisors |-> pr.divisors,
      error  |-> IF pr.status = "ok"
                 THEN FSum([ node_id \in DOMAIN values |->
                               FAbs(FSub(pr.new[node_id], values[node_id])) ],
                           SortedSeq(DOMAIN values), Zero)
                 ELSE Zero ]

iteration_propagate(ns, es, before, hs, seed_value, damping_factor) ==
    iteration_error(before, hs.values,
                    propagate([ status |-> "ok", nodes |-> ns, divisors |-> <<>>,
                                new |-> [ node_id \in Ids(ns) |-> seed_value ] ],
                              es, nodes_id(ns), hs.values, damping_factor))

iteration_seed(ns, es, before, hs, random_factor, damping_factor) ==
    iteration_propagate(ns, es, before, hs,
                        FAdd(random_factor, FMul(hs.sum, damping_factor)),
                        damping_factor)

\* One pass of the body of the for loop, up to the computation of error
iteration(ns, es, pagerank_values, sinks_list, num_nodes, random_factor, damping_factor) ==
    iteration_seed(ns, es, pagerank_values,
                   handle_sinks(pagerank_values, sinks_list, num_nodes),
                   random_factor, damping_factor)

\* The for loop from pass i on; log holds one record per executed pass.
RECURSIVE iterate(_, _, _, _, _, _, _, _, _, _, _)
iterate_test(log, es, i, num_iterations, tol, sinks_list, num_nodes, random_factor, damping_factor, it, converged) ==
    IF it.status # "ok"
    THEN [ status |-> it.status, nodes |-> it.nodes,
           pagerank_values |-> it.values, log |-> log ]
    ELSE IF converged
    THEN [ status |-> "ok", nodes |-> it.nodes, pagerank_values |-> it.values,
           log |-> Append(log, [ before |-> it.before, values |-> it.values,
                                 new |-> it.new, error |-> it.error,
                                 divisors |-> it.divisors,
                                 converged |-> TRUE ]) ]
    ELSE iterate(it.nodes, es, it.new,
                 Append(log, [ before |-> it.before, values |-> it.values,
                               new |-> it.new, error |-> it.error,
                               divisors |-> it.divisors,
                               converged |-> FALSE ]),
                 i + 1, num_iterations, tol, sinks_list, num_nodes,
                 random_factor, damping_factor)

iterate_pass(log, es, i, num_iterations, tol, sinks_list, num_nodes, random_factor, damping_factor, it) ==
    iterate_test(log, es, i, num_iterations, tol, sinks_list, num_nodes,
                 random_factor, damping_factor, it,
                 it.status = "ok" /\ FLess(it.error, tol))

\* Variant: a loop bound that is off by one, range(num_iterations + 1).
iterate_one_more(ns, es, pagerank_values, log, i, num_iterations, tol, sinks_list, num_nodes, random_factor, damping_factor) ==
    IF i > num_iterations
    THEN [ status |-> "ok", nodes |-> ns, pagerank_values |-> pagerank_values,
           log |-> log ]
    ELSE iterate_pass(log, es, i, num_iterations, tol, sinks_list, num_nodes,
                      random_factor, damping_factor,
                      iteration(ns, es, pagerank_values, sinks_list, num_nodes,
                                random_factor, damping_factor))

iterate(ns, es, pagerank_values, log, i, num_iterations, tol, sinks_list, num_nodes, random_factor, damping_factor) ==
    IF i >= num_iterations
    THEN [ status |-> "ok", nodes |-> ns, pagerank_values |-> pagerank_values,
           log |-> log ]
    ELSE iterate_pass(log, es, i, num_iterations, tol, sinks_list, num_nodes,
                      random_factor, damping_factor,
                      iteration(ns, es, pagerank_values, sinks_list, num_nodes,
                                random_factor, damping_factor))

pagerank_return(es, sinks_list, run) ==
    [ status |-> run.status,
      val    |-> IF run.status = "ok" THEN run.pagerank_values ELSE None,
      nodes  |-> run.nodes, edges |-> es, sinks |-> sinks_list, log |-> run.log ]

pagerank_start(ns, es, num_iterations, tol, damping_factor, num_nodes, fs) ==
    pagerank_return(es, fs.sinks,
        iterate(fs.nodes, es, [ node_id \in Ids(ns) |-> Frac(1, num_nodes) ], <<>>,
                0, num_iterations, tol, fs.sinks, num_nodes,
                FDiv(FSub(One, damping_factor), num_nodes), damping_factor))

pagerank(ns, es, num_iterations, tol, damping_factor) ==
    IF Len(ns) = 0
    THEN [ status |-> "ZeroDivisionError", val |-> None,
           nodes |-> ns, edges |-> es, sinks |-> <<>>, log |-> <<>> ]
    ELSE pagerank_start(ns, es, num_iterations, tol, damping_factor, Len(ns),
                        find_sinks(ns, es))

----------------------------------------------------------------------------
\* The PageRank program: read_graph_from_csv(node_file, edge_file, True)
\* builds the DirectedGraph row by row, then pagerank is called on it and
\* its result is handed to print_ranks; the doctests call pagerank on the same
\* graph again.
\* The one-character identifiers of the files are written 0, 1, 2, ...; the
\* files have no attribute columns.

Iterations == 0 .. MaxIter
Tols == { <<0, 1>>, <<1, 4>>, <<1, 1>> }
Dampings == { <<17, 20>>, <<1, 1>>, <<3, 2>> }
RowAttrs == {0}

InitPR ==
    /\ kind = "DirectedGraph"
    /\ pc = "node_file"
    /\ argv = <<>>
    /\ Constructed

\* A row of the node file either repeats an identifier of an earlier row or
\* introduces the next one.
read_node_row ==
    \E identifier \in RowIds, attributes \in RowAttrs :
        LET out == BaseGraph_add_node(self_nodes, self_edges, identifier, attributes)
        IN  /\ pc = "node_file"
            /\ Len(self_nodes) < MaxNodeRows
            /\ identifier <= Len(self_nodes)
            /\ Call("add_node", <<identifier, attributes>>, out)
            /\ pc' = IF out.status = "ok" THEN pc ELSE "raised"
            /\ UNCHANGED scans

end_of_node_file ==
    /\ pc = "node_file"
    /\ pc' = "edge_file"
    /\ UNCHANGED <<kind, self_nodes, self_edges, ret, scans, argv>>

read_edge_row ==
    \E node1_id \in RowIds, node2_id \in RowIds, attributes \in RowAttrs :
        LET out == Graph_add_edge(self_nodes, self_edges,
                                  node1_id, node2_id, attributes)
        IN  /\ pc = "edge_file"
            /\ Len(self_edges) < MaxEdgeRows
            /\ Call("add_edge", <<node1_id, node2_id, attributes>>, out)
            /\ pc' = IF out.status = "ok" THEN pc ELSE "raised"
            /\ UNCHANGED scans

end_of_edge_file ==
    /\ pc = "edge_file"
    /\ pc' = "loaded"
    /\ UNCHANGED <<kind, self_nodes, self_edges, ret, scans, argv>>

call_pagerank ==
    \E num_iterations \in Iterations, tol \in Tols, damping_factor \in Dampings :
        LET out == pagerank(self_nodes, self_edges, num_iterations, tol,
                            damping_factor)
        IN  /\ pc = "loaded"
            /\ self_nodes' = out.nodes
            /\ self_edges' = out.edges
            /\ ret' = [ op |-> "pagerank",
                        args |-> <<num_iterations, tol, damping_factor>>,
                        status |-> out.status, val |-> out.val,
                        sinks |-> out.sinks, log |-> out.log ]
            /\ pc' = IF out.status = "ok" THEN "ranked" ELSE "raised"
            /\ UNCHANGED <<kind, scans, argv>>

\* print_ranks writes the ranks and their sum to standard output and returns
\* nothing.
print_ranks ==
    /\ pc = "ranked"
    /\ pc' = "loaded"
    /\ ret' = [ op |-> "print_ranks", args |-> <<>>, status |-> "ok", val |-> None ]
    /\ UNCHANGED <<kind, self_nodes, self_edges, scans, argv>>

NextPR ==
    \/ read_node_row
    \/ end_of_node_file
    \/ read_edge_row
    \/ end_of_edge_file
    \/ call_pagerank
    \/ print_ranks

SpecPR == InitPR /\ [][NextPR]_vars

----------------------------------------------------------------------------
\* The command line: main(*sys.argv[1:]). An argument is the sequence of its
\* characters.

Digits ==
    "0" :> 0 @@ "1" :> 1 @@ "2" :> 2 @@ "3" :> 3 @@ "4" :> 4 @@
    "5" :> 5 @@ "6" :> 6 @@ "7" :> 7 @@ "8" :> 8 @@ "9" :> 9

RECURSIVE DecimalValue(_, _)
DecimalValue(text, acc) ==
    IF text = <<>> THEN acc
    ELSE DecimalValue(Tail(text), 10 * acc + Digits[Head(text)])

\* int(text) for a text of digits and letters
int(text) ==
    IF text = <<>> \/ \E i \in 1..Len(text) : text[i] \notin DOMAIN Digits
    THEN [ status |-> "ValueError", val |-> 0 ]
    ELSE [ status |-> "ok", val |-> DecimalValue(text, 0) ]

FileNames == { <<"n">>, <<"e">> }
IterationArgs == { <<"0">>, <<"1">>, <<"2">>, <<"0", "2">>, <<"x">>, <<"1", "x">>, <<>> }

ArgLists ==
    { <<>> } \cup { <<f>> : f \in FileNames }
        \cup { <<f, g>> : f \in FileNames, g \in FileNames }
        \cup { <<f, g, n>> : f \in FileNames, g \in FileNames, n \in IterationArgs }

\* Default values of the parameters tol and damping_factor of pagerank
DefaultTol == <<1, 1000000>>
DefaultDamping == <<17, 20>>

\* usage() prints the usage string and ends the program with sys.exit(1)
usage == [ status |-> "SystemExit", val |-> 1 ]

\* main up to its call of pagerank_from_csv: val is num_iterations. With two
\* arguments neither branch binds num_iterations, and reading it for the call
\* raises UnboundLocalError.
main_parse(args, parsed) ==
    IF parsed.status = "ValueError" THEN usage
    ELSE [ status |-> "ok", val |-> parsed.val ]

main_args(args) ==
    IF Len(args) < 2 THEN usage
    ELSE IF Len(args) > 2 THEN main_parse(args, int(args[3]))
    ELSE [ status |-> "UnboundLocalError", val |-> None ]

InitMain ==
    /\ kind = "DirectedGraph"
    /\ pc = "main"
    /\ argv \in ArgLists
    /\ Constructed

main ==
    /\ pc = "main"
    /\ ret' = [ op |-> "main", args |-> argv,
                status |-> main_args(argv).status, val |-> main_args(argv).val ]
    /\ pc' = CASE main_args(argv).status = "ok" -> "node_file"
               [] main_args(argv).status = "SystemExit" -> "exited"
               [] OTHER -> "raised"
    /\ UNCHANGED <<kind, self_nodes, self_edges, scans, argv>>

\* pagerank_from_csv once the graph is read: ranks = pagerank(rgraph,
\* num_iterations), then print_ranks(ranks).
pagerank_from_csv ==
    /\ pc = "loaded"
    /\ Len(argv) > 2
    /\ LET out == pagerank(self_nodes, self_edges, int(argv[3]).val,
                           DefaultTol, DefaultDamping)
       IN  /\ self_nodes' = out.nodes
           /\ self_edges' = out.edges
           /\ ret' = [ op |-> "pagerank_from_csv", args |-> <<int(argv[3]).val>>,
                       status |-> out.status, val |-> None,
                       ranks |-> out.val, log |-> out.log ]
           /\ pc' = IF out.status = "ok" THEN "done" ELSE "raised"
    /\ UNCHANGED <<kind, scans, argv>>

NextMain ==
    \/ main
    \/ read_node_row
    \/ end_of_node_file
    \/ read_edge_row
    \/ end_of_edge_file
    \/ pagerank_from_csv

SpecMain == InitMain /\ [][NextMain]_vars

----------------------------------------------------------------------------
\* What the stored edges say, independently of any cache

\* Sources of the edges into node_id, in edge-insertion order
InSources(es, node_id) ==
    LET into == SelectSeq(es, LAMBDA e : e.key[2] = node_id)
    IN  [ i \in 1..Len(into) |-> into[i].key[1] ]

\* Destinations of the edges out of node_id, in edge-insertion order
OutDestinations(es, node_id) ==
    LET from == SelectSeq(es, LAMBDA e : e.key[1] = node_id)
    IN  [ i \in 1..Len(from) |-> from[i].key[2] ]

InCount(es, node_id) == Cardinality({ i \in 1..Len(es) : es[i].key[2] = node_id })

OutCount(es, node_id) == Cardinality({ i \in 1..Len(es) : es[i].key[1] = node_id })

\* Nodes adjacent to node_id by a stored edge in either direction
Adjacent(es, node_id) ==
    { b \in NodeIds : HasEdge(es, <<node_id, b>>) \/ HasEdge(es, <<b, node_id>>) }

----------------------------------------------------------------------------
\* C1: in_neighbors(id) / out_neighbors(id) on a present node return exactly
\* the sources / destinations of the stored edges into / out of id, in
\* edge-insertion order, for every present node and also on a cache miss.
C1_NeighborsOfTheAskedNode ==
    /\ (ret.op = "in_neighbors" /\ HasNode(self_nodes, ret.args[1]))
          => (ret.status = "ok" /\ ret.val = InSources(self_edges, ret.args[1]))
    /\ (ret.op = "out_neighbors" /\ HasNode(self_nodes, ret.args[1]))
          => (ret.status = "ok" /\ ret.val = OutDestinations(self_edges, ret.args[1]))

\* C2: in_degree(id) / out_degree(id) on a present node always return the
\* number of stored edges into / out of id, on the cached path as well.
C2_DegreeIsEdgeCount ==
    /\ (ret.op = "in_degree" /\ HasNode(self_nodes, ret.args[1]))
          => (ret.status = "ok" /\ ret.val = InCount(self_edges, ret.args[1]))
    /\ (ret.op = "out_degree" /\ HasNode(self_nodes, ret.args[1]))
          => (ret.status = "ok" /\ ret.val = OutCount(self_edges, ret.args[1]))

\* C3: cache coherence. A degree query of node w, then a successful
\* add_edge(u, v), then the same query again: the second answer is the first
\* plus 1 for out_degree(u) and in_degree(v), and the first unchanged otherwise.
C3_Step ==
    (/\ kind = "DirectedGraph"
     /\ ret.op \in {"in_degree", "out_degree"} /\ ret.status = "ok"
     /\ ret'.op = "add_edge" /\ ret'.status = "ok")
    => LET w == ret.args[1]
           again == IF ret.op = "in_degree"
                    THEN DirectedGraph_in_degree(self_nodes', self_edges', w)
                    ELSE DirectedGraph_out_degree(self_nodes', self_edges', w)
           grows == \/ ret.op = "out_degree" /\ w = ret'.args[1]
                    \/ ret.op = "in_degree" /\ w = ret'.args[2]
       IN  /\ again.status = "ok"
           /\ again.val = ret.val + (IF grows THEN 1 ELSE 0)

C3_CacheCoherence == [][C3_Step]_vars

\* The reference update of the rank map, from the stored edges alone:
\* next[v] = (1-d)/N + d * (sum of rank[s] over sinks s)/N
\*                   + d * (sum over edges u->v of rank[u]/out_degree(u))
Indices(seq) == [ i \in 1..Len(seq) |-> i ]

RankSum(rank) == FSum(rank, SortedSeq(DOMAIN rank), Zero)

SinkShare(rank, es) ==
    [ s \in DOMAIN rank |-> IF OutCount(es, s) = 0 THEN rank[s] ELSE Zero ]

EdgeShare(rank, es, v) ==
    [ i \in 1..Len(es) |->
        IF es[i].key[2] = v
        THEN FDiv(rank[es[i].key[1]], OutCount(es, es[i].key[1]))
        ELSE Zero ]

ReferenceUpdate(rank, es, d) ==
    [ v \in DOMAIN rank |->
        FAdd(FDiv(FSub(One, d), Cardinality(DOMAIN rank)),
             FAdd(FMul(d, FDiv(RankSum(SinkShare(rank, es)),
                               Cardinality(DOMAIN rank))),
                  FMul(d, FSum(EdgeShare(rank, es, v), Indices(es), Zero)))) ]

RECURSIVE ReferenceRanks(_, _, _, _)
ReferenceRanks(rank, es, d, k) ==
    IF k = 0 THEN rank ELSE ReferenceRanks(ReferenceUpdate(rank, es, d), es, d, k - 1)

Uniform(ns) == [ node_id \in Ids(ns) |-> Frac(1, Len(ns)) ]

\* d is in [0, 1]
InUnitInterval(d) == ~FLess(d, Zero) /\ ~FLess(One, d)

\* No degree or neighbor query has been made on the graph
Unqueried(ns) ==
    \A i \in 1..Len(ns) :
        ~ns[i].flag_in /\ ~ns[i].flag_out /\ ~ns[i].flag_in_neig /\ ~ns[i].flag_out_neig

\* C4: on a graph with N >= 1 nodes built only by add_node/add_edge, with no
\* query made before, pagerank(G, k, tol=0, d) with d in [0, 1] returns the
\* reference update applied k times to the uniform map 1/N.
C4_Step ==
    (/\ pc = "loaded" /\ Len(self_nodes) >= 1 /\ Unqueried(self_nodes)
     /\ ret'.op = "pagerank" /\ ret'.args[2] = Zero
     /\ InUnitInterval(ret'.args[3]))
    => /\ ret'.status = "ok"
       /\ ret'.val = ReferenceRanks(Uniform(self_nodes), self_edges,
                                    ret'.args[3], ret'.args[1])

C4_ReferenceIterations == [][C4_Step]_vars

\* C5: rank conservation. For d in [0, 1], the rank map adopted at the end of
\* every pass of pagerank sums to 1, and so does the map pagerank returns.
C5_RankConservation ==
    (ret.op = "pagerank" /\ Len(self_nodes) >= 1 /\ InUnitInterval(ret.args[3]))
    => /\ ret.status = "ok"
       /\ RankSum(ret.val) = One
       /\ \A i \in 1..Len(ret.log) :
              ~ret.log[i].converged => RankSum(ret.log[i].new) = One

\* C6: when pagerank stops because error < tol, the map it returns is the rank
\* map as it was at the start of that pass; the division of the sink ranks by
\* N is not visible in it.
C6_ConvergedReturnsPreUpdateMap ==
    (/\ ret.op = "pagerank" /\ ret.status = "ok"
     /\ Len(ret.log) >= 1 /\ ret.log[Len(ret.log)].converged)
    => ret.val = ret.log[Len(ret.log)].before

\* C7: uniqueness. add_node of a present identifier and add_edge of a present
\* ordered pair fail with GraphError and leave the node and edge collections
\* (both halves of an undirected edge included) as they were.
C7_Step ==
    (\/ ret'.op = "add_node" /\ HasNode(self_nodes, ret'.args[1])
     \/ ret'.op = "add_edge" /\ HasEdge(self_edges, <<ret'.args[1], ret'.args[2]>>))
    => /\ ret'.status = "GraphError"
       /\ self_nodes' = self_nodes
       /\ self_edges' = self_edges

C7_Uniqueness == [][C7_Step]_vars

C7_Witness ==
    /\ kind = "UndirectedGraph"
    /\ ret.op = "add_edge"
    /\ ret.status = "GraphError"
    /\ HasEdge(self_edges, <<ret.args[1], ret.args[2]>>)
    /\ HasEdge(self_edges, <<ret.args[2], ret.args[1]>>)
    /\ Len(self_edges) = 2

\* C8: referential integrity. add_edge with an absent endpoint fails and
\* records nothing; every stored edge joins two nodes of the graph and refers
\* to the graph's own Node objects of its two identifiers.
EdgesReferToOwnNodes ==
    \A i \in 1..Len(self_edges) :
        LET e == self_edges[i]
        IN  /\ HasNode(self_nodes, e.key[1])
            /\ HasNode(self_nodes, e.key[2])
            /\ e.nodes = << self_nodes[NodeIndex(self_nodes, e.key[1])].oid,
                            self_nodes[NodeIndex(self_nodes, e.key[2])].oid >>

C8_Step ==
    (/\ ret'.op = "add_edge"
     /\ ~HasNode(self_nodes, ret'.args[1]) \/ ~HasNode(self_nodes, ret'.args[2]))
    => /\ ret'.status = "GraphError"
       /\ self_edges' = self_edges

C8_ReferentialIntegrity == []EdgesReferToOwnNodes /\ [][C8_Step]_vars

C8_Witness ==
    /\ ret.op = "add_edge"
    /\ ret.status = "GraphError"
    /\ ~HasNode(self_nodes, ret.args[2])
    /\ HasNode(self_nodes, ret.args[1])
    /\ self_edges # <<>>

\* C9: in an UndirectedGraph edge (a, b) is stored iff edge (b, a) is stored,
\* the two halves carry the same attributes, and no edge (a, a) is stored.
C9_UndirectedSymmetry ==
    kind = "UndirectedGraph" =>
        \A i \in 1..Len(self_edges) :
            LET e == self_edges[i]
                mirror == <<e.key[2], e.key[1]>>
            IN  /\ e.key[1] # e.key[2]
                /\ HasEdge(self_edges, mirror)
                /\ self_edges[EdgeIndex(self_edges, mirror)].attributes = e.attributes

C9_Witness ==
    /\ kind = "UndirectedGraph"
    /\ Len(self_edges) = 4
    /\ ret.op = "add_edge"
    /\ ret.status = "GraphError"
    /\ ret.args[1] = ret.args[2]

\* C10: degree(a) of an UndirectedGraph is the number of distinct nodes b
\* joined to a by an undirected edge: an adjacency stored as two halves
\* counts once.
C10_DegreeCountsAdjacencies ==
    (ret.op = "degree" /\ HasNode(self_nodes, ret.args[1]))
        => /\ ret.status = "ok"
           /\ ret.val = Cardinality(Adjacent(self_edges, ret.args[1]))

C10_Witness ==
    /\ ret.op = "degree"
    /\ ret.status = "ok"
    /\ ret.val = 2
    /\ Len(self_edges) = 4

\* Number of times x occurs in the list seq
Occurrences(seq, x) == Cardinality({ i \in 1..Len(seq) : seq[i] = x })

\* C11: self-loop policy. On a DirectedGraph, add_edge(a, a) for a present
\* node a with no (a, a) edge succeeds, after which in_degree(a) and
\* out_degree(a) are one larger than before and a appears once in both
\* in_neighbors(a) and out_neighbors(a); on an UndirectedGraph add_edge(a, a)
\* always fails and leaves the graph unchanged.
C11_Step ==
    (ret'.op = "add_edge" /\ ret'.args[1] = ret'.args[2])
    => LET a == ret'.args[1]
           ind  == DirectedGraph_in_degree(self_nodes', self_edges', a)
           outd == DirectedGraph_out_degree(self_nodes', self_edges', a)
           inn  == DirectedGraph_in_neighbors(self_nodes', self_edges', a)
           outn == DirectedGraph_out_neighbors(self_nodes', self_edges', a)
       IN  /\ kind = "UndirectedGraph"
                => /\ ret'.status = "GraphError"
                   /\ self_nodes' = self_nodes
                   /\ self_edges' = self_edges
           /\ (/\ kind = "DirectedGraph"
               /\ HasNode(self_nodes, a) /\ ~HasEdge(self_edges, <<a, a>>))
                => /\ ret'.status = "ok"
                   /\ ind.status = "ok" /\ ind.val = InCount(self_edges, a) + 1
                   /\ outd.status = "ok" /\ outd.val = OutCount(self_edges, a) + 1
                   /\ inn.status = "ok" /\ Occurrences(inn.val, a) = 1
                   /\ outn.status = "ok" /\ Occurrences(outn.val, a) = 1

C11_SelfLoopPolicy == [][C11_Step]_vars

\* The lookups by node identifier
NodeLookups ==
    {"node", "degree", "in_degree", "out_degree", "in_neighbors", "out_neighbors"}

\* The key looked up by the call (op, args) is absent from the graph (ns, es)
AbsentKey(ns, es, op, args) ==
    CASE op \in NodeLookups -> ~HasNode(ns, args[1])
      [] op = "edge" -> ~HasEdge(es, <<args[1], args[2]>>)
      [] op = "__getitem__" ->
            IF args[1].is_tuple THEN ~HasEdge(es, args[1].items)
            ELSE ~HasNode(ns, args[1].items[1])
      [] OTHER -> FALSE

\* C12: every lookup on an absent key (node, edge, g[key], in_degree,
\* out_degree, in_neighbors, out_neighbors, degree) fails with GraphError and
\* leaves the nodes, the edges and every cache marker and cached value as
\* they were.
C12_Step ==
    AbsentKey(self_nodes, self_edges, ret'.op, ret'.args)
    => /\ ret'.status = "GraphError"
       /\ self_nodes' = self_nodes
       /\ self_edges' = self_edges

C13_EmptyGraphError ==
    (ret.op = "pagerank" /\ Len(self_nodes) = 0)
    => /\ ret.status = "EmptyGraphError"
       /\ ret.log = <<>>

\* C14: pagerank with a damping factor d < 0 or d > 1 is rejected with an
\* error before any pass; no rank map is computed or returned.
C14_DampingValidated ==
    (ret.op = "pagerank" /\ Len(self_nodes) >= 1 /\ ~InUnitInterval(ret.args[3]))
    => /\ ret.status # "ok"
       /\ ret.val = None
       /\ ret.log = <<>>

\* C15: on a graph with N >= 1 nodes, pagerank with tol = 1, damping 0.85 and
\* num_iterations >= 1 returns after one pass: the convergence test succeeds
\* in the first pass and no second pass is executed.
C15_LooseToleranceStopsAtOnce ==
    (/\ ret.op = "pagerank" /\ Len(self_nodes) >= 1
     /\ ret.args[1] >= 1 /\ ret.args[2] = One /\ ret.args[3] = <<17, 20>>)
    => /\ ret.status = "ok"
       /\ Len(ret.log) = 1
       /\ ret.log[1].converged

\* Members of the list seq
Members(seq) == { seq[i] : i \in 1..Len(seq) }

\* (1-d)/N + d * (sum of rank[s] over the sinks s)/N
Seed(rank, es, d) ==
    FAdd(FDiv(FSub(One, d), Cardinality(DOMAIN rank)),
         FMul(d, FDiv(RankSum(SinkShare(rank, es)), Cardinality(DOMAIN rank))))

\* C16: on a graph with N >= 1 nodes, a node with no incident edge is in the
\* sink list of find_sinks, and in every pass a node with no incoming edge
\* receives exactly the seed (1-d)/N + sink_mass as its next rank.
C16_IsolatedNodes ==
    (ret.op = "pagerank" /\ Len(self_nodes) >= 1)
    => /\ ret.status = "ok"
       /\ \A v \in Ids(self_nodes) :
              (InCount(self_edges, v) = 0 /\ OutCount(self_edges, v) = 0)
                  => v \in Members(ret.sinks)
       /\ \A i \in 1..Len(ret.log) : \A v \in Ids(self_nodes) :
              InCount(self_edges, v) = 0
                  => ret.log[i].new[v] =
                         Seed(ret.log[i].before, self_edges, ret.args[3])

\* The four cache-valid markers of a Node
Markers(n) == <<n.flag_in, n.flag_in_neig, n.flag_out, n.flag_out_neig>>

\* C17: a successful base/directed add_edge(u, v) clears exactly four
\* markers, out-degree and out-neighbors of u, in-degree and in-neighbors of
\* v, and leaves every other marker of every node as it was; a failed add_edge
\* and add_node change no marker of any existing node.
C17_Step ==
    /\ (ret'.op = "add_edge" /\ ret'.status = "ok" /\ kind # "UndirectedGraph")
       => /\ Len(self_nodes') = Len(self_nodes)
          /\ \A i \in 1..Len(self_nodes) :
                 LET n == self_nodes[i]
                     is_u == n.identifier = ret'.args[1]
                     is_v == n.identifier = ret'.args[2]
                 IN  Markers(self_nodes'[i]) =
                         << IF is_v THEN FALSE ELSE n.flag_in,
                            IF is_v THEN FALSE ELSE n.flag_in_neig,
                            IF is_u THEN FALSE ELSE n.flag_out,
                            IF is_u THEN FALSE ELSE n.flag_out_neig >>
    /\ (\/ ret'.op = "add_edge" /\ ret'.status # "ok"
        \/ ret'.op = "add_node")
       => \A i \in 1..Len(self_nodes) :
              Markers(self_nodes'[i]) = Markers(self_nodes[i])

C17_ExactlyFourMarkers == [][C17_Step]_vars

C17_Witness ==
    /\ kind = "DirectedGraph"
    /\ ret.op = "add_edge" /\ ret.status = "ok" /\ ret.args[1] # ret.args[2]
    /\ Markers(self_nodes[NodeIndex(self_nodes, ret.args[1])]) = <<TRUE, FALSE, FALSE, FALSE>>
    /\ Markers(self_nodes[NodeIndex(self_nodes, ret.args[2])]) = <<FALSE, FALSE, TRUE, FALSE>>

\* C18: no stale cache. For every node of a DirectedGraph whose in-degree,
\* out-degree, in-neighbors or out-neighbors marker is set, the cached field
\* of that node equals the value recomputed from the current edges.
C18_NoStaleCache ==
    kind = "DirectedGraph"
    => \A i \in 1..Len(self_nodes) :
           LET n == self_nodes[i]
           IN  /\ n.flag_in => n.in_degree = InCount(self_edges, n.identifier)
               /\ n.flag_out => n.out_degree = OutCount(self_edges, n.identifier)
               /\ n.flag_in_neig
                      => n.in_neighbors = InSources(self_edges, n.identifier)
               /\ n.flag_out_neig
                      => n.out_neighbors = OutDestinations(self_edges, n.identifier)

C18_Witness ==
    /\ kind = "DirectedGraph"
    /\ ret.op = "add_edge" /\ ret.status = "ok"
    /\ Len(self_edges) = 2
    /\ \E i \in 1..Len(self_nodes) :
           /\ self_nodes[i].flag_in_neig /\ self_nodes[i].in_neighbors # <<>>
           /\ self_nodes[i].flag_out /\ self_nodes[i].out_degree = 1

\* L1 distance between two rank maps over the same nodes
L1Distance(a, b) ==
    FSum([ v \in DOMAIN a |-> FAbs(FSub(a[v], b[v])) ], SortedSeq(DOMAIN a), Zero)

\* C19: in every pass the error compared against tol is the L1 distance
\* between the new map and the map adopted at the end of the previous pass
\* (uniform 1/N in the first), so pagerank stops in the first pass in which
\* that distance is below tol, also when the graph has sinks.
C19_ErrorIsL1Distance ==
    (ret.op = "pagerank" /\ ret.status = "ok")
    => \A i \in 1..Len(ret.log) :
           /\ ret.log[i].before =
                  IF i = 1 THEN Uniform(self_nodes) ELSE ret.log[i - 1].new
           /\ ret.log[i].error = L1Distance(ret.log[i].new, ret.log[i].before)
           /\ ret.log[i].converged
                  <=> FLess(L1Distance(ret.log[i].new, ret.log[i].before), ret.args[2])

\* C20: on a graph with N >= 1 nodes, pagerank ends after at most
\* num_iterations passes; when no pass met error < tol it returns the map
\* produced by the last pass (the uniform map 1/N when num_iterations is 0),
\* with one entry for every node of the graph.
C20_BoundedIterations ==
    (ret.op = "pagerank" /\ Len(self_nodes) >= 1)
    => /\ ret.status = "ok"
       /\ Len(ret.log) <= ret.args[1]
       /\ DOMAIN ret.val = Ids(self_nodes)
       /\ (\A i \in 1..Len(ret.log) : ~ret.log[i].converged)
              => /\ Len(ret.log) = ret.args[1]
                 /\ ret.val = IF ret.args[1] = 0 THEN Uniform(self_nodes)
                              ELSE ret.log[ret.args[1]].new

C20_Witness ==
    /\ ret.op = "pagerank" /\ ret.status = "ok"
    /\ Len(self_nodes) = 3 /\ Len(self_edges) = 2
    /\ ret.args[1] = 2 /\ Len(ret.log) = 2
    /\ ~ret.log[2].converged
    /\ ret.val = ret.log[2].new

\* C21: in every pass of pagerank on a graph with N >= 1 nodes, every
\* division by out_degree(u) in the propagation step has out_degree(u) > 0:
\* every identifier u obtained from in_neighbors is a node with at least one
\* outgoing edge, and no division by zero occurs.
C21_NoDivisionByZero ==
    (ret.op = "pagerank" /\ Len(self_nodes) >= 1)
    => /\ ret.status # "ZeroDivisionError"
       /\ \A i \in 1..Len(ret.log) : \A j \in 1..Len(ret.log[i].divisors) :
              /\ ret.log[i].divisors[j][2] > 0
              /\ OutCount(self_edges, ret.log[i].divisors[j][1]) >= 1

C21_Witness ==
    /\ ret.op = "pagerank" /\ ret.status = "ok"
    /\ Len(ret.log) = 2
    /\ Len(ret.log[2].divisors) = 2
    /\ \E v \in Ids(self_nodes) : OutCount(self_edges, v) = 0

\* The Node objects of the same graph with no cache populated, as add_node
\* made them
Fresh(ns) ==
    [ i \in 1..Len(ns) |-> Node(ns[i].identifier, ns[i].attributes, ns[i].oid) ]

\* C22: pagerank is a pure function of the nodes, the edges and its
\* parameters. A call returns the map that the call with the same arguments
\* returns on the same graph with cold caches, whatever caches an earlier
\* query or pagerank call populated, and leaves the node and edge
\* collections unchanged.
C22_Step ==
    (pc = "loaded" /\ ret'.op = "pagerank")
    => LET cold == pagerank(Fresh(self_nodes), self_edges,
                            ret'.args[1], ret'.args[2], ret'.args[3])
       IN  /\ ret'.status = cold.status
           /\ ret'.val = cold.val
           /\ self_edges' = self_edges
           /\ Fresh(self_nodes') = Fresh(self_nodes)

C22_PureFunction == [][C22_Step]_vars

\* The text is a decimal integer
IsInteger(text) == text # <<>> /\ \A i \in 1..Len(text) : text[i] \in DOMAIN Digits

\* C23: main accepts every argument list <node_file> <edge_file>
\* [<num_iterations>]. With two arguments it runs the computation with a
\* default bound, with an integer third argument it uses that bound, and
\* it ends in the usage error only when fewer than two arguments are given or
\* the third is not an integer.
C23_CommandLine ==
    /\ ret.op = "main"
       => /\ ret.status = "SystemExit"
                <=> (Len(argv) < 2 \/ (Len(argv) > 2 /\ ~IsInteger(argv[3])))
          /\ ret.status \in {"SystemExit", "ok"}
    /\ ret.op = "pagerank_from_csv"
       => /\ IsInteger(argv[3])
          /\ ret.args[1] = DecimalValue(argv[3], 0)
          /\ Len(ret.log) <= ret.args[1]

\* C24: membership and g[key] agree with the dedicated lookups. For every
\* identifier x added with add_node, an identifier that is itself a pair
\* included, `x in g` is true and g[x] returns the Node that node(x) returns;
\* and `(a, b) in g` is true exactly when edge(a, b) succeeds.
C24_KeysAgreeWithLookups ==
    /\ ret.op = "__contains__"
       => /\ \A i \in 1..Len(self_nodes) :
                 ret.args[1] = KeyOf(self_nodes[i].identifier) => ret.val = TRUE
          /\ ret.args[1].is_tuple
                 => (ret.val <=> BaseGraph_edge(self_nodes, self_edges,
                                                ret.args[1].items[1],
                                                ret.args[1].items[2]).status = "ok")
    /\ ret.op = "__getitem__"
       => \A i \in 1..Len(self_nodes) :
              ret.args[1] = KeyOf(self_nodes[i].identifier)
                  => /\ ret.status = "ok"
                     /\ ret.val = BaseGraph_node(self_nodes, self_edges,
                                                 self_nodes[i].identifier).val

====
